---- MODULE Spec2Model ----
(***************************************************************************)
(* Model of the comment pipeline of youtube-comment-scraper:               *)
(*   comment-grouper.py   find_ama_dates, assign_periods,                  *)
(*                        group_comments_by_period, save_grouped_data, main*)
(*   comment-analyzer.py  CommentAnalyzer.chunk_comments, analyze_chunk,   *)
(*                        merge_analyses, analyze_period, main             *)
(* Timestamps are integers (ticks); a calendar date is a tick count        *)
(* divided by TicksPerDay.  Strings whose content matters (titles, LLM     *)
(* answers) are sequences of one-character strings; a comment text is a    *)
(* record carrying its identity and its number of characters.              *)
(***************************************************************************)
EXTENDS Integers, Sequences, FiniteSets, TLC

\* ---------------------------------------------------------------- bounds
MaxRecords == 3
MaxDirectRecords == 2
MaxTime == 3
TicksPerDay == 3
MaxComments == 3
MaxTokens == 3
MaxPartials == 3
MaxAnalyzerComments == 3

\* ------------------------------------------------------------- variables
VARIABLES
    gpc,          \* position in comment-grouper.py (main or a direct call)
    df,           \* the DataFrame rows, in file order
    ama_dates,    \* the marker timestamps handed to assign_periods
    period_col,   \* df['period'] after assign_periods (None where unassigned)
    periods,      \* the dict returned by group_comments_by_period
    saved,        \* the output file: whether written, and its content
    cpc,          \* position of a call of chunk_comments
    comments,     \* its argument comments
    max_tokens,   \* its argument max_tokens
    chunks,       \* its return value
    mpc,          \* position of a call of merge_analyses
    m_analyses,   \* its argument analyses
    m_outcome,    \* its consolidation call: "none", "ok" or "failed"
    m_result,     \* its return value
    ext_calls,    \* number of external text-generation calls issued so far
    in_flight,    \* number of external calls issued and not yet returned
    delay_pending, \* a chunk call was issued and time.sleep(1) has not run
                  \* since
    apc,          \* position in comment-analyzer.py main / analyze_period
    periods_in,   \* the items of the loaded JSON document, in order
    pidx,         \* index of the period being analysed
    period_chunks, \* analyze_period: chunks
    cidx,         \* analyze_period: index of the chunk being analysed
    results,      \* analyze_period: per chunk, whether its call failed and
                  \* the analysis analyze_chunk returned
    chunk_analyses, \* analyze_period: chunk_analyses
    analyses,     \* main: the dict analyses
    out_file      \* the output file: whether written, and its content

gvars == <<gpc, df, ama_dates, period_col, periods, saved>>

cvars == <<cpc, comments, max_tokens, chunks>>

mvars == <<mpc, m_analyses, m_outcome, m_result>>

avars == <<apc, periods_in, pidx, period_chunks, cidx, results,
           chunk_analyses, analyses, out_file>>

evars == <<ext_calls, in_flight, delay_pending>>

vars == <<gvars, cvars, mvars, avars, evars>>

\* No external call has been made.
ExtIdle ==
    /\ ext_calls = 0
    /\ in_flight = 0
    /\ delay_pending = FALSE

\* Python's None / pandas NaN in a column of labels.
None == <<>>

\* The output file before save_grouped_data has run.
NotWritten == [written |-> FALSE, content |-> <<>>]

\* The grouper's results before it has computed anything.
GrouperIdle ==
    /\ ama_dates = <<>>
    /\ period_col = <<>>
    /\ periods = <<>>
    /\ saved = NotWritten

\* A script or function that takes no part in a run.
GrouperOff ==
    /\ gpc = "off"
    /\ df = <<>>
    /\ GrouperIdle

ChunkOff ==
    /\ cpc = "off"
    /\ comments = <<>>
    /\ max_tokens = 0
    /\ chunks = <<>>

MergeOff ==
    /\ mpc = "off"
    /\ m_analyses = <<>>
    /\ m_outcome = "none"
    /\ m_result = <<>>

AnalyzerOff ==
    /\ apc = "off"
    /\ periods_in = <<>>
    /\ pidx = 0
    /\ period_chunks = <<>>
    /\ cidx = 0
    /\ results = <<>>
    /\ chunk_analyses = <<>>
    /\ analyses = <<>>
    /\ out_file = NotWritten

\* ------------------------------------------------------ generic helpers
Range(s) == {s[i] : i \in 1..Len(s)}

SeqsUpTo(S, n) == UNION {[1..k -> S] : k \in 0..n}

SetMin(S) == CHOOSE x \in S : \A y \in S : x <= y

SetMax(S) == CHOOSE x \in S : \A y \in S : x >= y

\* ------------------------------------------------------------ the input
Videos == {"v1", "v2", "v3"}

\* The title scraped for each video (comment-scraper.py copies it to every
\* comment of the video).
video_title(v) ==
    CASE v = "v1" -> <<"A", "M", "A", " ", "1">>
      [] v = "v2" -> <<"D", "r", "a", "m", "a">>
      [] OTHER    -> <<"v", "l", "o", "g">>

Rows == [published_at : 0..MaxTime, video_id : Videos]

\* ------------------------------------------------------- find_ama_dates
lower(c) ==
    CASE c = "A" -> "a"
      [] c = "M" -> "m"
      [] c = "D" -> "d"
      [] OTHER   -> c

\* Series.str.contains(pat, case=False): pat occurs somewhere in s, letters
\* compared without case.
str_contains(s, pat) ==
    \E i \in 0..(Len(s) - Len(pat)) :
        \A j \in 1..Len(pat) : lower(s[i + j]) = lower(pat[j])

MarkerToken == <<"A", "M", "A">>

\* DataFrame.sort_values('published_at'): insertion of each row after the
\* rows that are not later than it.
RECURSIVE sort_values(_)
sort_values(rows) ==
    IF rows = <<>> THEN <<>>
    ELSE LET rest == sort_values(SubSeq(rows, 1, Len(rows) - 1))
             x == rows[Len(rows)]
             k == Cardinality({i \in 1..Len(rest) :
                                 rest[i].published_at <= x.published_at})
         IN SubSeq(rest, 1, k) \o <<x>> \o SubSeq(rest, k + 1, Len(rest))

\* Series.unique(): the values in order of first appearance.
RECURSIVE unique(_)
unique(s) ==
    IF s = <<>> THEN <<>>
    ELSE LET rest == unique(SubSeq(s, 1, Len(s) - 1))
             x == s[Len(s)]
         IN IF x \in Range(rest) THEN rest ELSE Append(rest, x)

find_ama_dates(d) ==
    LET ama_videos == SelectSeq(d, LAMBDA r :
                          str_contains(video_title(r.video_id), MarkerToken))
        sorted == sort_values(ama_videos)
    IN unique([i \in 1..Len(sorted) |-> sorted[i].published_at])

\* ------------------------------------------------------- assign_periods
\* strftime('%Y-%m-%d'): the calendar day of a timestamp.
strftime_date(t) == t \div TicksPerDay

period_label_without_number(i, start_date, end_date) ==
    <<0, strftime_date(start_date), strftime_date(end_date)>>

\* The f-string "Period {i+1}: {start} to {end}" (i is 0-based in the code,
\* 1-based here, so the number printed is i).
period_label(i, start_date, end_date) ==
    <<i, strftime_date(start_date), strftime_date(end_date)>>

period_labels(dates) ==
    [i \in 1..(IF Len(dates) = 0 THEN 0 ELSE Len(dates) - 1) |->
        [start |-> dates[i],
         end   |-> dates[i + 1],
         label |-> period_label(i, dates[i], dates[i + 1])]]

period_mask_closed_end(r, period) ==
    r.published_at >= period.start /\ r.published_at <= period.end

period_mask(r, period) ==
    r.published_at >= period.start /\ r.published_at < period.end

\* The loop of lines 33-35: each period in turn overwrites the column where
\* its mask holds.
RECURSIVE assign_loop(_, _, _, _)
assign_loop(d, labels, k, col) ==
    IF k > Len(labels) THEN col
    ELSE assign_loop(d, labels, k + 1,
            [r \in 1..Len(d) |->
                IF period_mask(d[r], labels[k]) THEN labels[k].label
                ELSE col[r]])

assign_periods(d, dates) ==
    assign_loop(d, period_labels(dates), 1, [r \in 1..Len(d) |-> None])

\* --------------------------------------------- group_comments_by_period
period_rows(col, p) == SelectSeq([r \in 1..Len(col) |-> r], LAMBDA r : col[r] = p)

comment_count_by_video(d, rows) ==
    Cardinality({d[rows[i]].video_id : i \in 1..Len(rows)})

\* line 52: len(period_data)
comment_count(d, rows) == Len(rows)

group_comments_by_period(d, col) ==
    [p \in {q \in Range(unique(col)) : q # None} |->
        LET rows == period_rows(col, p)
            stamps == {d[rows[i]].published_at : i \in 1..Len(rows)}
        IN [rows          |-> rows,
            video_count   |-> Cardinality({d[rows[i]].video_id : i \in 1..Len(rows)}),
            comment_count |-> comment_count(d, rows),
            date_range    |-> [start |-> SetMin(stamps), end |-> SetMax(stamps)]]]

\* ---------------------------------------------------- save_grouped_data
\* strftime('%Y-%m-%d %H:%M:%S'): the day and the time within the day.
strftime_datetime(t) == <<t \div TicksPerDay, t % TicksPerDay>>

save_grouped_data(ps) ==
    [p \in DOMAIN ps |->
        [ps[p] EXCEPT !.date_range =
            [start |-> strftime_datetime(ps[p].date_range.start),
             end   |-> strftime_datetime(ps[p].date_range.end)]]]

\* ------------------------------------------ comment-grouper.py: actions
too_few_dates_below_one(dates) == Len(dates) < 1

\* main, line 90: if len(ama_dates) < 2
too_few_dates(dates) == Len(dates) < 2

\* main, line 87: the CSV has been loaded.
GrouperInit ==
    /\ gpc = "loaded"
    /\ df \in SeqsUpTo(Rows, MaxRecords)
    /\ GrouperIdle
    /\ ChunkOff
    /\ MergeOff
    /\ AnalyzerOff
    /\ ExtIdle

\* main, line 88.
FindAmaDates ==
    /\ gpc = "loaded"
    /\ ama_dates' = find_ama_dates(df)
    /\ gpc' = "found"
    /\ UNCHANGED <<df, period_col, periods, saved>>
    /\ UNCHANGED <<cvars, mvars, avars, evars>>

\* main, lines 90-92.
InsufficientBoundaries ==
    /\ gpc = "found"
    /\ too_few_dates(ama_dates)
    /\ gpc' = "error"
    /\ UNCHANGED <<df, ama_dates, period_col, periods, saved>>
    /\ UNCHANGED <<cvars, mvars, avars, evars>>

\* main, line 95.
AssignPeriods ==
    /\ gpc = "found"
    /\ ~too_few_dates(ama_dates)
    /\ period_col' = assign_periods(df, ama_dates)
    /\ gpc' = "assigned"
    /\ UNCHANGED <<df, ama_dates, periods, saved>>
    /\ UNCHANGED <<cvars, mvars, avars, evars>>

\* main, line 96.
GroupCommentsByPeriod ==
    /\ gpc = "assigned"
    /\ periods' = group_comments_by_period(df, period_col)
    /\ gpc' = "grouped"
    /\ UNCHANGED <<df, ama_dates, period_col, saved>>
    /\ UNCHANGED <<cvars, mvars, avars, evars>>

\* main, lines 99-107.
SaveGroupedData ==
    /\ gpc = "grouped"
    /\ saved' = [written |-> TRUE, content |-> save_grouped_data(periods)]
    /\ gpc' = "done"
    /\ UNCHANGED <<df, ama_dates, period_col, periods>>
    /\ UNCHANGED <<cvars, mvars, avars, evars>>

GrouperNext ==
    \/ FindAmaDates
    \/ InsufficientBoundaries
    \/ AssignPeriods
    \/ GroupCommentsByPeriod
    \/ SaveGroupedData

\* A call of assign_periods with any ascending list of distinct timestamps,
\* followed by group_comments_by_period.
AscendingLists ==
    {s \in SeqsUpTo(0..MaxTime, MaxTime + 1) :
        \A i \in 1..Len(s) : \A j \in 1..Len(s) : i < j => s[i] < s[j]}

DirectInit ==
    /\ gpc = "direct"
    /\ df \in SeqsUpTo(Rows, MaxDirectRecords)
    /\ ama_dates \in AscendingLists
    /\ period_col = <<>>
    /\ periods = <<>>
    /\ saved = NotWritten
    /\ ChunkOff
    /\ MergeOff
    /\ AnalyzerOff
    /\ ExtIdle

DirectAssignPeriods ==
    /\ gpc = "direct"
    /\ period_col' = assign_periods(df, ama_dates)
    /\ gpc' = "assigned"
    /\ UNCHANGED <<df, ama_dates, periods, saved>>
    /\ UNCHANGED <<cvars, mvars, avars, evars>>

DirectNext ==
    \/ DirectAssignPeriods
    \/ GroupCommentsByPeriod

\* ================================================ comment-analyzer.py
\* ------------------------------------------------------- chunk_comments
\* A comment text: what it says (text) and how many characters it has.
len(comment) == comment.chars

CharsPerToken == 4

comment_tokens(comment) == len(comment) \div CharsPerToken

exceeds_without_comment(current_length, tokens, limit) ==
    current_length > limit

exceeds_or_reaches(current_length, tokens, limit) ==
    current_length + tokens >= limit

\* line 35
exceeds(current_length, tokens, limit) ==
    current_length + tokens > limit

new_chunk_empty(comment) == <<>>

\* line 37
new_chunk(comment) == <<comment>>

\* The loop of lines 33-41, then lines 43-46.
RECURSIVE chunk_loop(_, _, _, _, _, _)
chunk_loop(cs, k, limit, done, current_chunk, current_length) ==
    IF k > Len(cs)
    THEN IF current_chunk # <<>> THEN Append(done, current_chunk) ELSE done
    ELSE LET tokens == comment_tokens(cs[k])
         IN IF exceeds(current_length, tokens, limit)
            THEN chunk_loop(cs, k + 1, limit, Append(done, current_chunk),
                            new_chunk(cs[k]), tokens)
            ELSE chunk_loop(cs, k + 1, limit, done,
                            Append(current_chunk, cs[k]), current_length + tokens)

chunk_comments(cs, limit) == chunk_loop(cs, 1, limit, <<>>, <<>>, 0)

\* Comment texts of 0 .. MaxTokens + 1 estimated tokens, two of them of the
\* same length.
ChunkPool ==
    {[text |-> "a", chars |-> n] :
        n \in {0, CharsPerToken} \cup
              {CharsPerToken * k + 3 : k \in 0..(MaxTokens + 1)}}
    \cup {[text |-> "b", chars |-> CharsPerToken]}

ChunkInit ==
    /\ cpc = "call"
    /\ comments \in SeqsUpTo(ChunkPool, MaxComments)
    /\ max_tokens \in 0..MaxTokens
    /\ chunks = <<>>

ChunkComments ==
    /\ cpc = "call"
    /\ chunks' = chunk_comments(comments, max_tokens)
    /\ cpc' = "returned"
    /\ UNCHANGED <<comments, max_tokens>>
    /\ UNCHANGED <<gvars, mvars, avars, evars>>


\* ------------------------------------------------ the external service
\* A text is a sequence of characters.  A call that succeeds returns a
\* non-empty text (response.choices[0].message.content); a call that fails
\* raises inside the try block of its caller.
ChunkResponses == {<<"x">>, <<"y", "y">>}

MergeResponses == {<<"z">>}

\* -------------------------------------------------------- analyze_chunk
\* line 62: the except branch returns "".
analyze_chunk_failure == <<>>

\* ------------------------------------------------------- merge_analyses
\* line 67
Placeholder ==
    <<"N", "o", " ", "a", "n", "a", "l", "y", "s", "i", "s", " ",
      "a", "v", "a", "i", "l", "a", "b", "l", "e", ".">>

\* str.join
RECURSIVE join(_, _)
join(sep, parts) ==
    IF parts = <<>> THEN <<>>
    ELSE IF Len(parts) = 1 THEN parts[1]
    ELSE parts[1] \o sep \o join(sep, Tail(parts))

merge_needs_call_for_one(partials) == Len(partials) >= 1

\* lines 66-70 fall through to the consolidation call.
merge_needs_call(partials) == ~(partials = <<>>) /\ ~(Len(partials) = 1)

\* lines 66-70
merge_without_call(partials) ==
    IF partials = <<>> THEN Placeholder ELSE partials[1]

merge_fallback_empty(partials) == <<>>

\* line 93
merge_fallback(partials) == join(<<"\n", "\n">>, partials)

\* lines 66-70: merge_analyses returns without an external call.
MergeReturnsDirectly ==
    /\ mpc = "entered"
    /\ ~merge_needs_call(m_analyses)
    /\ m_result' = merge_without_call(m_analyses)
    /\ mpc' = "returned"
    /\ UNCHANGED <<m_analyses, m_outcome, evars>>
    /\ UNCHANGED <<gvars, cvars, avars>>

\* lines 81-89: the consolidation request is sent.
MergeCall ==
    /\ mpc = "entered"
    /\ merge_needs_call(m_analyses)
    /\ mpc' = "waiting"
    /\ ext_calls' = ext_calls + 1
    /\ in_flight' = in_flight + 1
    /\ UNCHANGED delay_pending
    /\ UNCHANGED <<m_analyses, m_outcome, m_result>>
    /\ UNCHANGED <<gvars, cvars, avars>>

\* line 90: the consolidation call returned a text.
MergeCallSucceeds ==
    /\ mpc = "waiting"
    /\ \E text \in MergeResponses : m_result' = text
    /\ m_outcome' = "ok"
    /\ mpc' = "returned"
    /\ in_flight' = in_flight - 1
    /\ UNCHANGED <<m_analyses, ext_calls, delay_pending>>
    /\ UNCHANGED <<gvars, cvars, avars>>

\* lines 91-93: the consolidation call raised.
MergeCallFails ==
    /\ mpc = "waiting"
    /\ m_result' = merge_fallback(m_analyses)
    /\ m_outcome' = "failed"
    /\ mpc' = "returned"
    /\ in_flight' = in_flight - 1
    /\ UNCHANGED <<m_analyses, ext_calls, delay_pending>>
    /\ UNCHANGED <<gvars, cvars, avars>>

MergeNext ==
    \/ MergeReturnsDirectly
    \/ MergeCall
    \/ MergeCallSucceeds
    \/ MergeCallFails

\* A call of merge_analyses with any list of partials, empty ones included.
MergeInit ==
    /\ mpc = "entered"
    /\ m_analyses \in SeqsUpTo(ChunkResponses \cup {<<>>}, MaxPartials)
    /\ m_outcome = "none"
    /\ m_result = <<>>

\* ------------------------------------------------ analyze_period, main
DefaultMaxTokens == 3000

\* Comment texts of half the default limit and of one token more than it.
AnalyzerPool ==
    {[text |-> "a", chars |-> 2 * DefaultMaxTokens],
     [text |-> "b", chars |-> CharsPerToken * DefaultMaxTokens + CharsPerToken]}

\* The i-th item of grouped_comments.json.
PeriodItem(i, cs) ==
    [label |-> <<i, i - 1, i>>,
     data  |-> [comments       |-> cs,
                comment_count  |-> Len(cs),
                video_count    |-> i,
                unique_authors |-> i + 1,
                date_range     |-> [start |-> <<i - 1, 0>>, end |-> <<i, 0>>]]]

\* The ways to cut a list of comments into consecutive non-empty periods
\* (group_comments_by_period writes no period without a comment).
RECURSIVE Splits(_)
Splits(cs) ==
    IF cs = <<>> THEN {<<>>}
    ELSE UNION {{<<SubSeq(cs, 1, k)>> \o rest :
                    rest \in Splits(SubSeq(cs, k + 1, Len(cs)))} :
                k \in 1..Len(cs)}

PeriodInputs ==
    UNION {{[i \in 1..Len(sp) |-> PeriodItem(i, sp[i])] : sp \in Splits(cs)} :
           cs \in SeqsUpTo(AnalyzerPool, MaxAnalyzerComments)}

keep_always(analysis) == TRUE

\* line 105: if analysis
keep_analysis(analysis) == analysis # <<>>

period_metadata_swapped(data) ==
    [comment_count  |-> data.comment_count,
     video_count    |-> data.unique_authors,
     unique_authors |-> data.video_count,
     date_range     |-> data.date_range]

\* lines 113-118
period_metadata(data) ==
    [comment_count  |-> data.comment_count,
     video_count    |-> data.video_count,
     unique_authors |-> data.unique_authors,
     date_range     |-> data.date_range]

\* main, lines 128-136: the document is loaded, analyses = {}.
AnalyzerInit ==
    /\ apc = "period_loop"
    /\ periods_in \in PeriodInputs
    /\ pidx = 0
    /\ period_chunks = <<>>
    /\ cidx = 0
    /\ results = <<>>
    /\ chunk_analyses = <<>>
    /\ analyses = <<>>
    /\ out_file = NotWritten

\* main, lines 137-139 and analyze_period, lines 97-101.
StartPeriod ==
    /\ apc = "period_loop"
    /\ pidx < Len(periods_in)
    /\ pidx' = pidx + 1
    /\ period_chunks' =
          chunk_comments(periods_in[pidx + 1].data.comments, DefaultMaxTokens)
    /\ cidx' = 0
    /\ results' = <<>>
    /\ chunk_analyses' = <<>>
    /\ apc' = "chunk_loop"
    /\ UNCHANGED <<periods_in, analyses, out_file, evars>>
    /\ UNCHANGED <<gvars, cvars, mvars>>

\* analyze_period, lines 102-104, and analyze_chunk, lines 50-58: the
\* request for the next chunk is sent.
ChunkCall ==
    /\ apc = "chunk_loop"
    /\ cidx < Len(period_chunks)
    /\ cidx' = cidx + 1
    /\ apc' = "chunk_waiting"
    /\ ext_calls' = ext_calls + 1
    /\ in_flight' = in_flight + 1
    /\ delay_pending' = TRUE
    /\ UNCHANGED <<periods_in, pidx, period_chunks, results, chunk_analyses,
                   analyses, out_file>>
    /\ UNCHANGED <<gvars, cvars, mvars>>

pc_after_chunk_sleep_on_success(analysis) ==
    IF analysis # <<>> THEN "sleep" ELSE "chunk_loop"

\* analyze_period, lines 105-107: time.sleep(1) follows the if statement,
\* whatever analyze_chunk returned.
pc_after_chunk(analysis) == "sleep"

\* analyze_period, lines 104-106, with the analysis analyze_chunk returned.
ChunkReturns(analysis, failed) ==
    /\ results' = Append(results, [failed |-> failed, analysis |-> analysis])
    /\ chunk_analyses' = IF keep_analysis(analysis)
                         THEN Append(chunk_analyses, analysis)
                         ELSE chunk_analyses
    /\ apc' = pc_after_chunk(analysis)
    /\ in_flight' = in_flight - 1
    /\ UNCHANGED <<periods_in, pidx, period_chunks, cidx, analyses, out_file,
                   ext_calls, delay_pending>>
    /\ UNCHANGED <<gvars, cvars, mvars>>

\* analyze_chunk, line 59.
ChunkCallSucceeds ==
    /\ apc = "chunk_waiting"
    /\ \E text \in ChunkResponses : ChunkReturns(text, FALSE)

\* analyze_chunk, lines 60-62.
ChunkCallFails ==
    /\ apc = "chunk_waiting"
    /\ ChunkReturns(analyze_chunk_failure, TRUE)

\* analyze_period, line 107.
Sleep ==
    /\ apc = "sleep"
    /\ apc' = "chunk_loop"
    /\ delay_pending' = FALSE
    /\ UNCHANGED <<periods_in, pidx, period_chunks, cidx, results,
                   chunk_analyses, analyses, out_file, ext_calls, in_flight>>
    /\ UNCHANGED <<gvars, cvars, mvars>>

\* analyze_period, line 110: merge_analyses is entered.
EnterMerge ==
    /\ apc = "chunk_loop"
    /\ cidx = Len(period_chunks)
    /\ apc' = "merge"
    /\ mpc' = "entered"
    /\ m_analyses' = chunk_analyses
    /\ m_outcome' = "none"
    /\ m_result' = <<>>
    /\ UNCHANGED <<periods_in, pidx, period_chunks, cidx, results,
                   chunk_analyses, analyses, out_file, evars>>
    /\ UNCHANGED <<gvars, cvars>>

\* analyze_period, lines 110-120, and main, line 139.
FinishPeriod ==
    /\ apc = "merge"
    /\ mpc = "returned"
    /\ analyses' =
          [l \in DOMAIN analyses \cup {periods_in[pidx].label} |->
              IF l = periods_in[pidx].label
              THEN [period_metadata |-> period_metadata(periods_in[pidx].data),
                    analysis        |-> m_result]
              ELSE analyses[l]]
    /\ apc' = "period_loop"
    /\ mpc' = "off"
    /\ UNCHANGED <<periods_in, pidx, period_chunks, cidx, results,
                   chunk_analyses, out_file, evars>>
    /\ UNCHANGED <<m_analyses, m_outcome, m_result>>
    /\ UNCHANGED <<gvars, cvars>>

\* main, lines 142-150.
SaveAnalyses ==
    /\ apc = "period_loop"
    /\ pidx = Len(periods_in)
    /\ out_file' = [written |-> TRUE, content |-> analyses]
    /\ apc' = "done"
    /\ UNCHANGED <<periods_in, pidx, period_chunks, cidx, results,
                   chunk_analyses, analyses, evars>>
    /\ UNCHANGED <<gvars, cvars, mvars>>

AnalyzerNext ==
    \/ StartPeriod
    \/ ChunkCall
    \/ ChunkCallSucceeds
    \/ ChunkCallFails
    \/ Sleep
    \/ EnterMerge
    \/ MergeNext
    \/ FinishPeriod
    \/ SaveAnalyses

\* ======================================================= properties, grouper
Assigned == gpc \in {"assigned", "grouped", "done"}

\* The periods whose interval [t_i, t_{i+1}) holds timestamp p.
Hits(dates, p) ==
    {i \in 1..(Len(dates) - 1) : dates[i] <= p /\ p < dates[i + 1]}

InSomePeriod(r) == \E l \in DOMAIN periods : r \in Range(periods[l].rows)

\* C1: given an ascending list of distinct marker timestamps t_1..t_n, every
\* record gets at most one period; it carries the label of period i exactly
\* when t_i <= published_at < t_{i+1}; a record before t_1 or at/after t_n
\* has no period and is in no period of group_comments_by_period's output.
C1_HalfOpenAssignment ==
    Assigned =>
        \A r \in 1..Len(df) :
            LET p == df[r].published_at
                hits == Hits(ama_dates, p)
            IN /\ Cardinality(hits) <= 1
               /\ \A i \in 1..(Len(ama_dates) - 1) :
                     (period_col[r] = <<i, ama_dates[i] \div TicksPerDay,
                                           ama_dates[i + 1] \div TicksPerDay>>)
                        <=> (i \in hits)
               /\ (hits = {}) <=> (period_col[r] = None)
               /\ (Len(ama_dates) > 0
                     /\ (p < ama_dates[1] \/ p >= ama_dates[Len(ama_dates)]))
                    => period_col[r] = None
               /\ gpc = "grouped" =>
                     /\ (hits = {}) <=> ~InSomePeriod(r)
                     /\ \A l \in DOMAIN periods :
                           (r \in Range(periods[l].rows)) <=> (period_col[r] = l)

\* C1 witness: three or more markers, one record inside a period, one
\* record at or after the last marker, and the grouping has run.
C1_Witness ==
    /\ gpc = "grouped"
    /\ Len(ama_dates) >= 3
    /\ \E r1, r2 \in 1..Len(df) :
          /\ period_col[r1] # None
          /\ InSomePeriod(r1)
          /\ df[r2].published_at >= ama_dates[Len(ama_dates)]
          /\ period_col[r2] = None

\* The marker-bearing sources that occur in d, and the first timestamp at
\* which each occurs.
MarkerSources(d) ==
    {d[i].video_id : i \in {j \in 1..Len(d) :
        str_contains(video_title(d[j].video_id), MarkerToken)}}

FirstAppearance(d, v) ==
    SetMin({d[i].published_at : i \in {j \in 1..Len(d) : d[j].video_id = v}})

IsAscending(s) == \A i \in 1..Len(s) : \A j \in 1..Len(s) : i < j => s[i] < s[j]

\* C2: find_ama_dates returns, ascending and without duplicates, exactly the
\* first timestamp of each marker-bearing source; no other timestamp of a
\* record on such a source is a boundary.
C2_OneDatePerSource ==
    gpc # "loaded" =>
        /\ IsAscending(ama_dates)
        /\ Range(ama_dates) = {FirstAppearance(df, v) : v \in MarkerSources(df)}

\* C3: with n >= 2 marker timestamps there are n - 1 boundaries, boundary i
\* is (t_i, t_{i+1}), boundaries are ordered (end_i <= start_j for i < j),
\* their labels are pairwise distinct, and group_comments_by_period yields
\* exactly one period per boundary: n - 1 periods.
C3_BoundaryCount ==
    Assigned =>
        LET n == Len(ama_dates)
            b == period_labels(ama_dates)
        IN /\ n >= 2
           /\ Len(b) = n - 1
           /\ \A i \in 1..Len(b) :
                 b[i].start = ama_dates[i] /\ b[i].end = ama_dates[i + 1]
           /\ \A i \in 1..Len(b) : \A j \in 1..Len(b) :
                 i < j => (b[i].end <= b[j].start /\ b[i].label # b[j].label)
           /\ gpc \in {"grouped", "done"} =>
                 /\ DOMAIN periods = {b[i].label : i \in 1..Len(b)}
                 /\ Cardinality(DOMAIN periods) = n - 1

\* C3 witness: three marker timestamps of the same calendar day give two
\* periods.
C3_Witness ==
    /\ gpc = "grouped"
    /\ Len(ama_dates) = 3
    /\ strftime_date(ama_dates[1]) = strftime_date(ama_dates[3])
    /\ Cardinality(DOMAIN periods) = 2


\* C11: with fewer than two distinct marker timestamps the run ends at once
\* in the insufficient-boundaries error: no period is assigned, nothing is
\* written and no later step runs; with two or more the run does not take
\* the error path.
C11_InsufficientBoundaries ==
    /\ gpc = "found" =>
          /\ Cardinality(Range(ama_dates)) < 2 => ~ENABLED AssignPeriods
          /\ Cardinality(Range(ama_dates)) >= 2 => ~ENABLED InsufficientBoundaries
    /\ gpc = "error" =>
          /\ Cardinality(Range(ama_dates)) < 2
          /\ period_col = <<>>
          /\ periods = <<>>
          /\ ~saved.written
          /\ ~ENABLED GrouperNext
    /\ gpc \in {"assigned", "grouped", "done"} =>
          Cardinality(Range(ama_dates)) >= 2

\* C11 witness: several records, only one marker timestamp, and the run has
\* ended in the error.
C11_Witness ==
    /\ gpc = "error"
    /\ Len(df) >= 2
    /\ Len(ama_dates) = 1

\* The records whose timestamp lies in [start, end).
RecordsIn(start, end) ==
    {r \in 1..Len(df) : start <= df[r].published_at /\ df[r].published_at < end}

RECURSIVE SumOver(_, _)
SumOver(f, S) ==
    IF S = {} THEN 0
    ELSE LET x == CHOOSE y \in S : TRUE IN f[x] + SumOver(f, S \ {x})

Unassigned == {r \in 1..Len(df) : period_col[r] = None}

\* C12: after assign_periods and group_comments_by_period every period's
\* comment_count is the number of input records with a timestamp in the
\* period's interval [start, end), and the comment_counts of all periods
\* plus the number of records without a period add up to the number of
\* input records.
C12_CountsReconcile ==
    gpc \in {"grouped", "done"} =>
        /\ \A i \in 1..(Len(ama_dates) - 1) :
              LET l == <<i, ama_dates[i] \div TicksPerDay,
                            ama_dates[i + 1] \div TicksPerDay>>
                  n == Cardinality(RecordsIn(ama_dates[i], ama_dates[i + 1]))
              IN IF l \in DOMAIN periods
                 THEN periods[l].comment_count = n
                 ELSE n = 0
        /\ SumOver([l \in DOMAIN periods |-> periods[l].comment_count],
                   DOMAIN periods)
              + Cardinality(Unassigned) = Len(df)

\* C12 witness: a period holding two records of the same video, and a
\* record left without a period.
C12_Witness ==
    /\ gpc = "grouped"
    /\ Unassigned # {}
    /\ \E l \in DOMAIN periods :
          /\ periods[l].comment_count = 2
          /\ periods[l].video_count = 1

\* ======================================================= properties, chunks
RECURSIVE Flatten(_)
Flatten(ss) == IF ss = <<>> THEN <<>> ELSE Head(ss) \o Flatten(Tail(ss))

RECURSIVE SumTokens(_)
SumTokens(chunk) ==
    IF chunk = <<>> THEN 0
    ELSE (Head(chunk).chars \div 4) + SumTokens(Tail(chunk))

\* C4: the chunks, concatenated in chunk order, are the input list: every
\* comment is in exactly one chunk and order is kept within and across
\* chunks.
C4_ChunksPartitionInput ==
    cpc = "returned" => Flatten(chunks) = comments

\* C4 witness: three comments, two of them equal in length but not in text,
\* split over two non-empty chunks.
C4_Witness ==
    /\ cpc = "returned"
    /\ Len(comments) = 3
    /\ \E i, j \in 1..3 : comments[i].text # comments[j].text
    /\ Len(chunks) = 2
    /\ \A i \in 1..2 : chunks[i] # <<>>

\* C5: no chunk is empty when the input is non-empty (also when the first
\* comment alone exceeds max_tokens), and an empty input gives no chunk.
C5_NoEmptyChunk ==
    cpc = "returned" =>
        /\ comments = <<>> => chunks = <<>>
        /\ \A i \in 1..Len(chunks) : chunks[i] # <<>>

\* C6: a chunk's summed estimated size is at most max_tokens unless the chunk
\* is a single comment whose own size exceeds max_tokens; a comment whose
\* size alone exceeds max_tokens is the only member of its chunk.
C6_ChunkWithinLimit ==
    cpc = "returned" =>
        \A i \in 1..Len(chunks) :
            /\ \/ SumTokens(chunks[i]) <= max_tokens
               \/ /\ Len(chunks[i]) = 1
                  /\ chunks[i][1].chars \div 4 > max_tokens
            /\ \A k \in 1..Len(chunks[i]) :
                  chunks[i][k].chars \div 4 > max_tokens => Len(chunks[i]) = 1

\* C6 witness: a chunk of two comments that fills the limit and a chunk
\* that is one oversized comment.
C6_Witness ==
    /\ cpc = "returned"
    /\ \E i, j \in 1..Len(chunks) :
          /\ Len(chunks[i]) = 2
          /\ SumTokens(chunks[i]) = max_tokens
          /\ max_tokens > 0
          /\ Len(chunks[j]) = 1
          /\ chunks[j][1].chars \div 4 > max_tokens


\* C14: packing is greedy: a chunk is closed only when the next comment
\* would take it over the limit, so for consecutive chunks the summed
\* estimated size of the earlier one plus the estimated size of the first
\* comment of the later one is more than max_tokens.
C14_GreedyPacking ==
    cpc = "returned" =>
        \A i \in 1..(Len(chunks) - 1) :
            /\ chunks[i + 1] # <<>>
            /\ SumTokens(chunks[i]) + (chunks[i + 1][1].chars \div 4) > max_tokens

\* C14 witness: a chunk of two comments closed by a third comment that fits
\* the limit on its own.
C14_Witness ==
    /\ cpc = "returned"
    /\ Len(chunks) = 2
    /\ Len(chunks[1]) = 2
    /\ SumTokens(chunks[1]) < max_tokens
    /\ Len(chunks[2]) = 1
    /\ chunks[2][1].chars \div 4 <= max_tokens

\* ======================================================== properties, merge
PlaceholderText ==
    <<"N", "o", " ", "a", "n", "a", "l", "y", "s", "i", "s", " ",
      "a", "v", "a", "i", "l", "a", "b", "l", "e", ".">>

\* Where block i starts in the blocks of parts laid out with a blank line
\* (two newlines) between neighbours.
RECURSIVE BlockOffset(_, _)
BlockOffset(parts, i) ==
    IF i = 1 THEN 0 ELSE BlockOffset(parts, i - 1) + Len(parts[i - 1]) + 2

IsBlocksOf(text, parts) ==
    LET n == Len(parts)
    IN /\ n >= 1
       /\ Len(text) = BlockOffset(parts, n) + Len(parts[n])
       /\ \A i \in 1..n :
             SubSeq(text, BlockOffset(parts, i) + 1,
                    BlockOffset(parts, i) + Len(parts[i])) = parts[i]
       /\ \A i \in 1..(n - 1) :
             /\ text[BlockOffset(parts, i) + Len(parts[i]) + 1] = "\n"
             /\ text[BlockOffset(parts, i) + Len(parts[i]) + 2] = "\n"

\* C7: given partials of which at least one is non-empty, merge_analyses
\* never returns the empty string, whether the consolidation call succeeds
\* or fails; when it fails the result is all partials in input order, each
\* its own block, blank lines between them.
C7_MergeNeverEmpty ==
    (mpc = "returned" /\ \E i \in 1..Len(m_analyses) : m_analyses[i] # <<>>)
        => /\ m_result # <<>>
           /\ m_outcome = "failed" => IsBlocksOf(m_result, m_analyses)

\* C7 witness: three partials, one of them empty, and a failed
\* consolidation call.
C7_Witness ==
    /\ mpc = "returned"
    /\ m_outcome = "failed"
    /\ Len(m_analyses) = 3
    /\ m_analyses[1] # m_analyses[3]
    /\ \E i \in 1..3 : m_analyses[i] = <<>>
    /\ \E i \in 1..3 : m_analyses[i] # <<>>

\* C8: with fewer than two partials merge_analyses makes no external call;
\* merge_analyses([]) is "No analysis available." and merge_analyses([x])
\* is x.
C8_MergeWithoutCall ==
    Len(m_analyses) < 2 =>
        /\ ext_calls = 0
        /\ mpc # "waiting"
        /\ m_outcome = "none"
        /\ mpc = "returned" =>
              /\ m_analyses = <<>> => m_result = PlaceholderText
              /\ Len(m_analyses) = 1 => m_result = m_analyses[1]

\* C8 witness: merge_analyses([x]) has returned x, x non-empty.
C8_Witness ==
    /\ mpc = "returned"
    /\ Len(m_analyses) = 1
    /\ m_analyses[1] # <<>>
    /\ m_result = m_analyses[1]
    /\ ExtIdle

\* ===================================================== properties, analyzer
NonEmptyResults ==
    SelectSeq([i \in 1..Len(results) |-> results[i].analysis],
              LAMBDA a : a # <<>>)

Failures == {i \in 1..Len(results) : results[i].failed}

PeriodFinished == apc \in {"period_loop", "done"} /\ pidx >= 1

\* C9: a batch whose call fails yields an empty partial and the loop goes
\* on: merge_analyses receives exactly the non-empty results of the other
\* batches, in batch order; with some batch succeeding (one of three
\* failing, say) the period's summary is non-empty, with every batch
\* failing it is the placeholder.
C9_FailedBatchIsolated ==
    /\ \A i \in Failures : results[i].analysis = <<>>
    /\ \A i \in 1..Len(results) : results[i].analysis = <<>> => i \in Failures
    /\ chunk_analyses = NonEmptyResults
    /\ apc = "merge" =>
          /\ Len(results) = Len(period_chunks)
          /\ m_analyses = NonEmptyResults
    /\ PeriodFinished =>
          LET summary == analyses[periods_in[pidx].label].analysis
          IN /\ Len(results) = Len(period_chunks)
             /\ Cardinality(Failures) < Len(results) => summary # <<>>
             /\ Cardinality(Failures) = Len(results) => summary = PlaceholderText

\* C9 witness: a period of three batches, the second of which failed, whose
\* consolidation call failed too, with a non-empty summary.
C9_Witness ==
    /\ PeriodFinished
    /\ Len(results) = 3
    /\ Failures = {2}
    /\ m_outcome = "failed"
    /\ analyses[periods_in[pidx].label].analysis # <<>>
    /\ analyses[periods_in[pidx].label].analysis # PlaceholderText

\* What the output must hold for the i-th input period.
MetadataOf(i) ==
    [comment_count  |-> periods_in[i].data.comment_count,
     video_count    |-> periods_in[i].data.video_count,
     unique_authors |-> periods_in[i].data.unique_authors,
     date_range     |-> periods_in[i].data.date_range]

OutputComplete ==
    /\ out_file.written
    /\ DOMAIN out_file.content = {periods_in[i].label : i \in 1..Len(periods_in)}
    /\ Cardinality(DOMAIN out_file.content) = Len(periods_in)
    /\ \A i \in 1..Len(periods_in) :
          out_file.content[periods_in[i].label].period_metadata = MetadataOf(i)

\* C10: whatever external calls succeed or fail, the run over all periods
\* ends, and its output has exactly one result per input period with the
\* period's comment_count, video_count, unique_authors and date_range
\* unchanged.
C10_RunCompletes ==
    /\ <>(apc = "done")
    /\ [](apc = "done" => OutputComplete)

\* C10 witness: a finished run over two or more periods in which every
\* batch call of one period failed and another period got a summary.
C10_Witness ==
    /\ apc = "done"
    /\ Len(periods_in) >= 2
    /\ OutputComplete
    /\ \E l \in DOMAIN out_file.content :
          out_file.content[l].analysis = PlaceholderText
    /\ \E l \in DOMAIN out_file.content :
          out_file.content[l].analysis # PlaceholderText


\* C13: every chunk-level call, successful or not, is followed by the fixed
\* delay before any further external call is issued (the next chunk's, the
\* consolidation call, the first call of the next period), and two external
\* calls are never in flight together.
C13_DelayBetweenCalls ==
    /\ [](in_flight <= 1)
    /\ [][ext_calls' # ext_calls => (~delay_pending /\ in_flight = 0)]_vars

\* C13 witness: in the second period or later, after a failed chunk call
\* and its delay, the consolidation call is in flight.
C13_Witness ==
    /\ pidx >= 2
    /\ mpc = "waiting"
    /\ in_flight = 1
    /\ ~delay_pending
    /\ Failures # {}


Spec == GrouperInit /\ [][GrouperNext]_vars

SpecAssign == DirectInit /\ [][DirectNext]_vars

ChunkSpecInit ==
    GrouperOff /\ ChunkInit /\ MergeOff /\ AnalyzerOff /\ ExtIdle

ChunkNext == ChunkComments

SpecChunk == ChunkSpecInit /\ [][ChunkNext]_vars

MergeSpecInit ==
    GrouperOff /\ ChunkOff /\ MergeInit /\ AnalyzerOff /\ ExtIdle

SpecMerge == MergeSpecInit /\ [][MergeNext]_vars

AnalyzerSpecInit ==
    GrouperOff /\ ChunkOff /\ MergeOff /\ AnalyzerInit /\ ExtIdle

SpecAnalyze == AnalyzerSpecInit /\ [][AnalyzerNext]_vars

\* Every external call is a blocking request that returns or raises, and
\* the script runs each statement in turn.
FairSpecAnalyze == SpecAnalyze /\ WF_vars(AnalyzerNext)

====
